---- MODULE Spec2Model ----
(***************************************************************************)
(* Model of src/plugins/remote-cache/storage/github-actions-cache.ts: the  *)
(* storage provider built by createGithubActionsCache, its lookup client   *)
(* (getMeta / get / exists) and its upload sink (upload / Upload).         *)
(*                                                                         *)
(* Strings are sequences of tokens (a token is one character, or an opaque *)
(* multi-character atom such as a host name), so that joining, encoding    *)
(* and concatenating are computed.  Byte buffers are run-length encoded:   *)
(* a sequence of runs [b |-> byte, n |-> count], n > 0, adjacent runs of   *)
(* different bytes; every byte string has exactly one such encoding.       *)
(*                                                                         *)
(* The three operations of the provider run independently of each other    *)
(* (they share only the immutable url and token of the client), so the     *)
(* lookup client and the upload sink are explored by two specifications,   *)
(* LookupSpec and UploadSpec, over the same variables and the same factory.*)
(* The remote service is the environment: every fetch() settles with any   *)
(* of the rejections, statuses and bodies of the input domains below.      *)
(***************************************************************************)
EXTENDS Integers, Sequences, FiniteSets, TLC

VARIABLES env, cache, existsOp, readOp, sinks

vars == <<env, cache, existsOp, readOp, sinks>>

\* ------------------------------------------------------------------ bounds
MaxWrites == 2

\* --------------------------------------------------------------- constants
VERSION == <<"1", "0">>

CHUNK_SIZE == 32 * 1024 * 1024

\* the value of an unset environment variable / a missing JSON field
Undefined == <<"undefined">>

EmptyString == <<>>

AcceptHeader == <<"application/json;api-version=6.0-preview.1">>

\* ------------------------------------------------------------ input domains
EnvValues == {Undefined, EmptyString, <<"https://cache.example/">>}

TokenValues == {Undefined, EmptyString, <<"tok">>}

ArtifactPaths == {<<"k">>, <<"a", ",", "b">>}

Statuses == {200, 204, 304, 404, 500}

Locations == {<<"https://blob.example/1">>}

\* what res.json() of the query response can find in the body
QueryBodies ==
    {[kind |-> "invalid"], [kind |-> "null"]}
    \cup {[kind |-> "object", archiveLocation |-> l] :
             l \in {Undefined, EmptyString} \cup Locations}

\* what a fetch() can settle with: a rejection (transport failure) or a response
QueryResponses ==
    {[kind |-> "reject"]}
    \cup {[kind |-> "response", status |-> s, body |-> b] :
             s \in Statuses, b \in QueryBodies}

BlobResponses ==
    {[kind |-> "reject"]}
    \cup {[kind |-> "response", status |-> s, body |-> b] :
             s \in Statuses, b \in BOOLEAN}

SessionIds == {<<"7">>, <<"4", "/", "2">>}

ReserveBodies ==
    {[kind |-> "invalid"], [kind |-> "null"]}
    \cup {[kind |-> "object", cacheId |-> c] : c \in {Undefined} \cup SessionIds}

EightMiB == 8 * 1024 * 1024

\* the chunks a caller writes: nothing, "abc", or one repeated byte
WriteChunks ==
    {<<>>, <<[b |-> 97, n |-> 1], [b |-> 98, n |-> 1], [b |-> 99, n |-> 1]>>}
    \cup {<<[b |-> byte, n |-> count]>> :
             byte \in {97, 98}, count \in {EightMiB, CHUNK_SIZE, CHUNK_SIZE + 1}}

ReserveResponses ==
    {[kind |-> "reject"]}
    \cup {[kind |-> "response", status |-> s, body |-> b] :
             s \in Statuses, b \in ReserveBodies}

PlainResponses ==
    {[kind |-> "reject"]} \cup {[kind |-> "response", status |-> s] : s \in Statuses}

Sinks == {"s1", "s2"}

\* ------------------------------------------------------------------ errors
Null == [name |-> "null", message |-> <<>>]

Err(name, message) == [name |-> name, message |-> message]

NotFoundError == Err("NotFoundError", <<>>)

FetchError == Err("FetchError", <<"request failed">>)

SyntaxError == Err("SyntaxError", <<"invalid json">>)

TypeError == Err("TypeError", <<"cannot read properties of null">>)

CallbackError == Err("CallbackError", <<"thrown by the callback">>)

\* ------------------------------------------------------- JavaScript helpers
\* !v for a string-or-undefined value
Falsy(v) == v = Undefined \/ v = EmptyString

\* String(v) as a template literal or encodeURIComponent applies it
ToStr(v) == IF v = Undefined
              THEN <<"u", "n", "d", "e", "f", "i", "n", "e", "d">>
              ELSE v

RECURSIVE Join(_, _)
Join(keys, sep) ==
    IF keys = <<>> THEN <<>>
    ELSE IF Len(keys) = 1 THEN keys[1]
    ELSE keys[1] \o sep \o Join(Tail(keys), sep)

EncodeChar(c) ==
    CASE c = "," -> <<"%", "2", "C">>
      [] c = "/" -> <<"%", "2", "F">>
      [] c = "%" -> <<"%", "2", "5">>
      [] OTHER   -> <<c>>

RECURSIVE EncodeURIComponent(_)
EncodeURIComponent(s) ==
    IF s = <<>> THEN <<>>
    ELSE EncodeChar(Head(s)) \o EncodeURIComponent(Tail(s))

\* Response.ok
ResOk(status) == status >= 200 /\ status < 300

\* ------------------------------------------------------------ byte buffers
RECURSIVE BufLen(_)
BufLen(buf) == IF buf = <<>> THEN 0 ELSE Head(buf).n + BufLen(Tail(buf))

BufConcat2(a, b) ==
    IF a = <<>> THEN b
    ELSE IF b = <<>> THEN a
    ELSE IF a[Len(a)].b = b[1].b
      THEN SubSeq(a, 1, Len(a) - 1)
             \o <<[b |-> b[1].b, n |-> a[Len(a)].n + b[1].n]>>
             \o Tail(b)
      ELSE a \o b

RECURSIVE BufConcat(_)
BufConcat(list) ==
    IF list = <<>> THEN <<>>
    ELSE BufConcat2(Head(list), BufConcat(Tail(list)))

RECURSIVE BufDrop(_, _)
BufDrop(buf, k) ==
    IF k <= 0 \/ buf = <<>> THEN buf
    ELSE IF Head(buf).n <= k THEN BufDrop(Tail(buf), k - Head(buf).n)
    ELSE <<[b |-> Head(buf).b, n |-> Head(buf).n - k]>> \o Tail(buf)

RECURSIVE BufTake(_, _)
BufTake(buf, k) ==
    IF k <= 0 \/ buf = <<>> THEN <<>>
    ELSE IF Head(buf).n <= k
      THEN <<Head(buf)>> \o BufTake(Tail(buf), k - Head(buf).n)
      ELSE <<[b |-> Head(buf).b, n |-> k]>>

Min(a, b) == IF a <= b THEN a ELSE b

\* buf.slice(start, end) for 0 <= start: the bytes at offsets start .. end-1
BufSlice(buf, start, end) ==
    BufTake(BufDrop(buf, start), Min(end, BufLen(buf)) - start)

\* ---------------------------------------------------------------- requests
AuthHeader(token) == <<"Bearer ">> \o token

\* the fetch() call of getMeta
GetMetaRequest(c, keys, version) ==
    [method  |-> "GET",
     url     |-> c.url \o <<"_apis/artifactcache/cache?keys=">>
                   \o EncodeURIComponent(Join(keys, <<",">>))
                   \o <<"&version=">> \o EncodeURIComponent(version),
     headers |-> [Accept |-> AcceptHeader, Authorization |-> AuthHeader(c.token)]]

\* the fetch() call of get
BlobRequest(location) == [method |-> "GET", url |-> location]

\* what is kept of a settled fetch() next to the request that it answers
Settled(res) ==
    IF res.kind = "reject" THEN [kind |-> "reject"]
    ELSE [kind |-> "response", status |-> res.status]

\* ------------------------------------------------------------------ getMeta
\* a getMeta that throws a plain Error for a non-success response
GetMetaOnResponsePlainError(res) ==
    IF res.kind = "reject" THEN [to |-> "throw", error |-> FetchError]
    ELSE IF ~ResOk(res.status)
      THEN [to |-> "throw", error |-> Err("Error", <<"query failed">>)]
    ELSE [to |-> "json"]

\* getMeta after its fetch() settled: throw, or go on to res.json()
GetMetaOnResponse(res) ==
    IF res.kind = "reject" THEN [to |-> "throw", error |-> FetchError]
    ELSE IF ~ResOk(res.status) THEN [to |-> "throw", error |-> NotFoundError]
    ELSE [to |-> "json"]

\* a getMeta without the test of body.archiveLocation
GetMetaOnJsonUnchecked(body) ==
    IF body.kind = "invalid" THEN [to |-> "throw", error |-> SyntaxError]
    ELSE IF body.kind = "null" THEN [to |-> "throw", error |-> TypeError]
    ELSE [to |-> "return", archiveLocation |-> body.archiveLocation]

\* getMeta after res.json() settled
GetMetaOnJson(body) ==
    IF body.kind = "invalid" THEN [to |-> "throw", error |-> SyntaxError]
    ELSE IF body.kind = "null" THEN [to |-> "throw", error |-> TypeError]
    ELSE IF Falsy(body.archiveLocation)
      THEN [to |-> "throw", error |-> NotFoundError]
    ELSE [to |-> "return", archiveLocation |-> body.archiveLocation]

\* ------------------------------------------------------------------ factory
\* a fromEnv that tests for undefined only, not for the empty string
fromEnvUndefinedOnly(e) ==
    IF e.ACTIONS_CACHE_URL = Undefined
      THEN [status |-> "threw",
            error  |-> Err("Error", <<"missing ACTIONS_CACHE_URL">>)]
    ELSE IF e.ACTIONS_RUNTIME_TOKEN = Undefined
      THEN [status |-> "threw",
            error  |-> Err("Error", <<"missing ACTIONS_RUNTIME_TOKEN">>)]
    ELSE [status |-> "ok", url |-> e.ACTIONS_CACHE_URL,
          token |-> e.ACTIONS_RUNTIME_TOKEN]

\* GithubActionsCache.fromEnv
fromEnv(e) ==
    IF Falsy(e.ACTIONS_CACHE_URL)
      THEN [status |-> "threw",
            error  |-> Err("Error", <<"missing ACTIONS_CACHE_URL">>)]
    ELSE IF Falsy(e.ACTIONS_RUNTIME_TOKEN)
      THEN [status |-> "threw",
            error  |-> Err("Error", <<"missing ACTIONS_RUNTIME_TOKEN">>)]
    ELSE [status |-> "ok", url |-> e.ACTIONS_CACHE_URL,
          token |-> e.ACTIONS_RUNTIME_TOKEN]

createGithubActionsCache ==
    /\ cache.status = "uncalled"
    /\ cache' = fromEnv(env)
    /\ UNCHANGED <<env, existsOp, readOp, sinks>>

\* ------------------------------------------------------------------- exists
\* a .catch that reports every failure of getMeta as a miss: cb(null, false)
ExistsHandlersAllMisses(outcome, throws1, throws2) ==
    IF outcome.to = "return"
      THEN IF throws1
             THEN [cb        |-> <<[err |-> Null, exists |-> TRUE],
                                   [err |-> Null, exists |-> FALSE]>>,
                   unhandled |-> IF throws2 THEN CallbackError ELSE Null]
             ELSE [cb        |-> <<[err |-> Null, exists |-> TRUE]>>,
                   unhandled |-> Null]
      ELSE [cb        |-> <<[err |-> Null, exists |-> FALSE]>>,
            unhandled |-> IF throws1 THEN CallbackError ELSE Null]

\* the .then / .catch chain of exists, given how getMeta settled and whether
\* the caller's callback throws on its first and on its second invocation
ExistsHandlers(outcome, throws1, throws2) ==
    IF outcome.to = "return"
      THEN IF throws1
             THEN [cb        |-> <<[err |-> Null, exists |-> TRUE],
                                   [err |-> CallbackError, exists |-> FALSE]>>,
                   unhandled |-> IF throws2 THEN CallbackError ELSE Null]
             ELSE [cb        |-> <<[err |-> Null, exists |-> TRUE]>>,
                   unhandled |-> Null]
      ELSE [cb        |-> <<[err    |-> IF outcome.error.name = "NotFoundError"
                                          THEN Null ELSE outcome.error,
                             exists |-> FALSE]>>,
            unhandled |-> IF throws1 THEN CallbackError ELSE Null]

exists(artifactPath) ==
    /\ cache.status = "ok"
    /\ existsOp.pc = "idle"
    /\ existsOp' = [existsOp EXCEPT
                      !.pc = "query",
                      !.path = artifactPath,
                      !.reqs = <<GetMetaRequest(cache, <<artifactPath>>, VERSION)>>]
    /\ UNCHANGED <<env, cache, readOp, sinks>>

existsSettle(op, outcome, throws1, throws2) ==
    LET h == ExistsHandlers(outcome, throws1, throws2)
    IN  [op EXCEPT !.pc = "done", !.cb = h.cb, !.unhandled = h.unhandled]

existsQueryResponse(res, throws1, throws2) ==
    /\ existsOp.pc = "query"
    /\ LET out == GetMetaOnResponse(res)
           op  == [existsOp EXCEPT !.resps = Append(@, Settled(res))]
       IN  existsOp' = IF out.to = "json"
                         THEN [op EXCEPT !.pc = "json", !.body = res.body]
                         ELSE existsSettle(op, out, throws1, throws2)
    /\ UNCHANGED <<env, cache, readOp, sinks>>

existsQueryJson(throws1, throws2) ==
    /\ existsOp.pc = "json"
    /\ existsOp' = existsSettle(existsOp, GetMetaOnJson(existsOp.body),
                                throws1, throws2)
    /\ UNCHANGED <<env, cache, readOp, sinks>>

\* --------------------------------------------------------- createReadStream
createReadStream(artifactPath) ==
    /\ cache.status = "ok"
    /\ readOp.pc = "idle"
    /\ readOp' = [readOp EXCEPT
                    !.pc = "query",
                    !.path = artifactPath,
                    !.reqs = <<GetMetaRequest(cache, <<artifactPath>>, VERSION)>>]
    /\ UNCHANGED <<env, cache, existsOp, sinks>>

\* a get that swallows the failure of getMeta and fetches all the same
GetOnMetaFetchAnyway(op, out) ==
    IF out.to = "throw"
      THEN [op EXCEPT !.pc = "blob",
                      !.reqs = Append(@, BlobRequest(Undefined))]
      ELSE [op EXCEPT !.pc = "blob",
                      !.reqs = Append(@, BlobRequest(out.archiveLocation))]

\* get after getMeta settled: rethrow, or fetch(meta.archiveLocation)
GetOnMeta(op, out) ==
    IF out.to = "throw"
      THEN [op EXCEPT !.pc = "done",
                      !.result = [kind |-> "rejected", error |-> out.error]]
      ELSE [op EXCEPT !.pc = "blob",
                      !.reqs = Append(@, BlobRequest(out.archiveLocation))]

\* a get that reports a failed blob fetch as not-found
GetOnBlobNotFound(res) ==
    IF res.kind = "reject" THEN [kind |-> "rejected", error |-> FetchError]
    ELSE IF ~ResOk(res.status) \/ ~res.body
      THEN [kind |-> "rejected", error |-> NotFoundError]
    ELSE [kind |-> "stream", error |-> Null]

\* get after the blob fetch() settled
GetOnBlob(res) ==
    IF res.kind = "reject" THEN [kind |-> "rejected", error |-> FetchError]
    ELSE IF ~ResOk(res.status) \/ ~res.body
      THEN [kind |-> "rejected",
            error |-> Err("Error", <<"Failed to fetch blob">>)]
    ELSE [kind |-> "stream", error |-> Null]

readQueryResponse(res) ==
    /\ readOp.pc = "query"
    /\ LET out == GetMetaOnResponse(res)
           op  == [readOp EXCEPT !.resps = Append(@, Settled(res))]
       IN  readOp' = IF out.to = "json"
                       THEN [op EXCEPT !.pc = "json", !.body = res.body]
                       ELSE GetOnMeta(op, out)
    /\ UNCHANGED <<env, cache, existsOp, sinks>>

readQueryJson ==
    /\ readOp.pc = "json"
    /\ readOp' = GetOnMeta(readOp, GetMetaOnJson(readOp.body))
    /\ UNCHANGED <<env, cache, existsOp, sinks>>

readBlobResponse(res) ==
    /\ readOp.pc = "blob"
    /\ readOp' = [readOp EXCEPT !.pc = "done",
                                !.resps = Append(@, res),
                                !.result = GetOnBlob(res)]
    /\ UNCHANGED <<env, cache, existsOp, sinks>>

\* ------------------------------------------------------------------- upload
\* the fetch() call of upload: the reservation
ReserveRequest(c, key, version) ==
    [method  |-> "POST",
     url     |-> c.url \o <<"_apis/artifactcache/caches">>,
     headers |-> [Accept |-> AcceptHeader,
                  ContentType |-> <<"application/json">>,
                  Authorization |-> AuthHeader(c.token)],
     body    |-> [key |-> key, version |-> version]]

\* createWriteStream calls cache.upload(artifactPath, VERSION)
createWriteStream(s, artifactPath) ==
    /\ cache.status = "ok"
    /\ sinks[s].pc = "none"
    /\ sinks' = [sinks EXCEPT ![s] =
                   [@ EXCEPT !.pc = "reserve",
                             !.key = artifactPath,
                             !.reqs = <<ReserveRequest(cache, artifactPath, VERSION)>>]]
    /\ UNCHANGED <<env, cache, existsOp, readOp>>

Rejected(sink, error) ==
    [sink EXCEPT !.pc = "rejected",
                 !.created = [kind |-> "rejected", error |-> error]]

\* an upload without the res.ok test of the reservation
UploadOnResponseUnchecked(sink, res) ==
    IF res.kind = "reject" THEN Rejected(sink, FetchError)
    ELSE [sink EXCEPT !.pc = "reserveJson", !.body = res.body]

\* upload after its fetch() settled
UploadOnResponse(sink, res) ==
    IF res.kind = "reject" THEN Rejected(sink, FetchError)
    ELSE IF ~ResOk(res.status) THEN [sink EXCEPT !.pc = "reserveText"]
    ELSE [sink EXCEPT !.pc = "reserveJson", !.body = res.body]

\* an error built from await res.text(), or the failure of reading the text
TextError(prefix, readOk) ==
    IF readOk THEN Err("Error", prefix \o <<"<response text>">>) ELSE FetchError

\* new Upload(id, this.url, this.token)
NewUpload(sink, id, c) ==
    [sink EXCEPT !.pc = "open",
                 !.created = [kind |-> "sink", error |-> Null],
                 !.cacheId = id,
                 !.url = c.url,
                 !.token = c.token,
                 !.data = <<>>]

\* upload after res.json() settled
UploadOnJson(sink, c) ==
    IF sink.body.kind = "invalid" THEN Rejected(sink, SyntaxError)
    ELSE IF sink.body.kind = "null" THEN Rejected(sink, TypeError)
    ELSE NewUpload(sink, sink.body.cacheId, c)

uploadReserveResponse(s, res) ==
    /\ sinks[s].pc = "reserve"
    /\ sinks' = [sinks EXCEPT ![s] =
                   UploadOnResponse([@ EXCEPT !.resps = Append(@, Settled(res))], res)]
    /\ UNCHANGED <<env, cache, existsOp, readOp>>

uploadReserveText(s, readOk) ==
    /\ sinks[s].pc = "reserveText"
    /\ sinks' = [sinks EXCEPT ![s] = Rejected(@, TextError(<<>>, readOk))]
    /\ UNCHANGED <<env, cache, existsOp, readOp>>

uploadReserveJson(s) ==
    /\ sinks[s].pc = "reserveJson"
    /\ sinks' = [sinks EXCEPT ![s] = UploadOnJson(@, cache)]
    /\ UNCHANGED <<env, cache, existsOp, readOp>>

\* ------------------------------------------------------------------- Upload
\* The Writable base class calls _write once per written chunk while the stream
\* has not been ended, and _final once, after the last _write; its callbacks
\* do not throw.  A sink is "open" from its construction to _final, then runs
\* completeUpload ("patch", "patchText", "finalize", "finalizeText") and ends
\* "completed" or "failed".  reqs / resps are the fetch() calls the sink has
\* made and the settlements it has received, in order.
\* written is the history of the chunks handed to _write, in call order.
\* a _write that puts the chunk in front: Buffer.concat([chunk, this.data])
writePrepended(s, chunk) ==
    /\ sinks[s].pc = "open"
    /\ sinks[s].writes < MaxWrites
    /\ sinks' = [sinks EXCEPT ![s] =
                   [@ EXCEPT !.data = BufConcat(<<chunk, @>>),
                             !.written = Append(@, chunk),
                             !.writes = @ + 1]]
    /\ UNCHANGED <<env, cache, existsOp, readOp>>

\* a _write that is still accepted after end-of-input
writeAfterEnd(s, chunk) ==
    /\ sinks[s].pc \in {"open", "patch", "finalize"}
    /\ sinks[s].writes < MaxWrites
    /\ sinks' = [sinks EXCEPT ![s] =
                   [@ EXCEPT !.data = BufConcat(<<@, chunk>>),
                             !.written = Append(@, chunk),
                             !.writes = @ + 1]]
    /\ UNCHANGED <<env, cache, existsOp, readOp>>

\* a _write into one buffer that every sink shares
writeShared(s, chunk) ==
    /\ sinks[s].pc = "open"
    /\ sinks[s].writes < MaxWrites
    /\ sinks' = [t \in Sinks |->
                   IF t = s
                     THEN [sinks[t] EXCEPT !.data = BufConcat(<<@, chunk>>),
                                           !.written = Append(@, chunk),
                                           !.writes = @ + 1]
                   ELSE IF sinks[t].pc = "open"
                     THEN [sinks[t] EXCEPT !.data = BufConcat(<<@, chunk>>)]
                   ELSE sinks[t]]
    /\ UNCHANGED <<env, cache, existsOp, readOp>>

\* Upload._write
write(s, chunk) ==
    /\ sinks[s].pc = "open"
    /\ sinks[s].writes < MaxWrites
    /\ sinks' = [sinks EXCEPT ![s] =
                   [@ EXCEPT !.data = BufConcat(<<@, chunk>>),
                             !.written = Append(@, chunk),
                             !.writes = @ + 1]]
    /\ UNCHANGED <<env, cache, existsOp, readOp>>

\* Math.floor in place of Math.ceil
NumChunksFloor(length) == length \div CHUNK_SIZE

\* Math.ceil(length / CHUNK_SIZE)
NumChunks(length) ==
    IF length % CHUNK_SIZE = 0
      THEN length \div CHUNK_SIZE
      ELSE length \div CHUNK_SIZE + 1

\* this.data.slice(i * CHUNK_SIZE, Math.min((i + 1) * CHUNK_SIZE, this.data.length))
ChunkOf(data, i) ==
    BufSlice(data, i * CHUNK_SIZE, Min((i + 1) * CHUNK_SIZE, BufLen(data)))

\* the range end without its "- 1"
ContentRangeExclusiveEnd(data, i) ==
    [unit  |-> "bytes",
     start |-> i * CHUNK_SIZE,
     end   |-> i * CHUNK_SIZE + BufLen(ChunkOf(data, i)),
     total |-> BufLen(data)]

\* `bytes ${start}-${end}/${total}`
ContentRange(data, i) ==
    [unit  |-> "bytes",
     start |-> i * CHUNK_SIZE,
     end   |-> i * CHUNK_SIZE + BufLen(ChunkOf(data, i)) - 1,
     total |-> BufLen(data)]

SessionUrl(sink) ==
    sink.url \o <<"_apis/artifactcache/caches/">>
        \o EncodeURIComponent(ToStr(sink.cacheId))

\* the fetch() call of the chunk loop
PatchRequest(sink, i) ==
    [method  |-> "PATCH",
     url     |-> SessionUrl(sink),
     body    |-> ChunkOf(sink.data, i),
     headers |-> [Accept |-> AcceptHeader,
                  ContentType |-> <<"application/octet-stream">>,
                  ContentRange |-> ContentRange(sink.data, i),
                  Authorization |-> AuthHeader(sink.token)]]

\* the fetch() call after the chunk loop
FinalizeRequest(sink) ==
    [method  |-> "POST",
     url     |-> SessionUrl(sink),
     body    |-> [size |-> BufLen(sink.data)],
     headers |-> [Accept |-> AcceptHeader,
                  ContentType |-> <<"application/json">>,
                  Authorization |-> AuthHeader(sink.token)]]

\* a chunk loop whose fetch() is not awaited: the next call goes out with it
CompleteUploadUnawaited(sink) ==
    IF sink.i < sink.chunks
      THEN [sink EXCEPT !.pc = "patch",
                        !.reqs = @ \o <<PatchRequest(sink, sink.i),
                                        IF sink.i + 1 < sink.chunks
                                          THEN PatchRequest(sink, sink.i + 1)
                                          ELSE FinalizeRequest(sink)>>]
      ELSE [sink EXCEPT !.pc = "finalize",
                        !.reqs = Append(@, FinalizeRequest(sink))]

\* completeUpload running from the loop test to its next await
CompleteUploadFrom(sink) ==
    IF sink.i < sink.chunks
      THEN [sink EXCEPT !.pc = "patch",
                        !.reqs = Append(@, PatchRequest(sink, sink.i))]
      ELSE [sink EXCEPT !.pc = "finalize",
                        !.reqs = Append(@, FinalizeRequest(sink))]

\* a .then that does not call the callback
CompletedSilently(sink) == [sink EXCEPT !.pc = "completed"]

\* the .then / .catch of _final: callback(null) or callback(err)
Completed(sink) == [sink EXCEPT !.pc = "completed", !.finalCb = Append(@, Null)]

\* a .catch that drops the error: callback(null)
FailedSwallowed(sink, error) ==
    [sink EXCEPT !.pc = "failed", !.finalCb = Append(@, Null)]

Failed(sink, error) == [sink EXCEPT !.pc = "failed", !.finalCb = Append(@, error)]

\* a chunk loop without the res.ok test
OnPatchResponseUnchecked(sink, res) ==
    IF res.kind = "reject" THEN Failed(sink, FetchError)
    ELSE CompleteUploadFrom([sink EXCEPT !.i = @ + 1])

\* completeUpload after the fetch() of a chunk settled
OnPatchResponse(sink, res) ==
    IF res.kind = "reject" THEN Failed(sink, FetchError)
    ELSE IF ~ResOk(res.status) THEN [sink EXCEPT !.pc = "patchText"]
    ELSE CompleteUploadFrom([sink EXCEPT !.i = @ + 1])

\* a finalize that is sent once more after a non-success response
OnFinalizeResponseRetry(sink, res) ==
    IF res.kind = "reject" THEN Failed(sink, FetchError)
    ELSE IF ~ResOk(res.status)
      THEN IF Len(sink.reqs) = sink.chunks + 2
             THEN [sink EXCEPT !.reqs = Append(@, FinalizeRequest(sink))]
             ELSE [sink EXCEPT !.pc = "finalizeText"]
    ELSE Completed(sink)

\* completeUpload after the finalize fetch() settled
OnFinalizeResponse(sink, res) ==
    IF res.kind = "reject" THEN Failed(sink, FetchError)
    ELSE IF ~ResOk(res.status) THEN [sink EXCEPT !.pc = "finalizeText"]
    ELSE Completed(sink)

\* Upload._final: end-of-input, completeUpload up to its first fetch()
final(s) ==
    /\ sinks[s].pc = "open"
    /\ sinks' = [sinks EXCEPT ![s] =
                   CompleteUploadFrom(
                     [@ EXCEPT !.chunks = NumChunks(BufLen(sinks[s].data)), !.i = 0])]
    /\ UNCHANGED <<env, cache, existsOp, readOp>>

patchResponse(s, res) ==
    /\ sinks[s].pc = "patch"
    /\ sinks' = [sinks EXCEPT ![s] =
                   OnPatchResponse([@ EXCEPT !.resps = Append(@, Settled(res))], res)]
    /\ UNCHANGED <<env, cache, existsOp, readOp>>

patchText(s, readOk) ==
    /\ sinks[s].pc = "patchText"
    /\ sinks' = [sinks EXCEPT ![s] =
                   Failed(@, TextError(<<"Failed to patch upload range for upload: ">>,
                                       readOk))]
    /\ UNCHANGED <<env, cache, existsOp, readOp>>

finalizeResponse(s, res) ==
    /\ sinks[s].pc = "finalize"
    /\ sinks' = [sinks EXCEPT ![s] =
                   OnFinalizeResponse([@ EXCEPT !.resps = Append(@, Settled(res))], res)]
    /\ UNCHANGED <<env, cache, existsOp, readOp>>

finalizeText(s, readOk) ==
    /\ sinks[s].pc = "finalizeText"
    /\ sinks' = [sinks EXCEPT ![s] =
                   Failed(@, TextError(<<"Failed to finalize POST for upload: ">>,
                                       readOk))]
    /\ UNCHANGED <<env, cache, existsOp, readOp>>

\* --------------------------------------------------------------------- init
NoBody == [kind |-> "none"]

InitExistsOp ==
    [pc |-> "idle", path |-> <<>>, reqs |-> <<>>, resps |-> <<>>,
     body |-> NoBody, cb |-> <<>>, unhandled |-> Null]

InitReadOp ==
    [pc |-> "idle", path |-> <<>>, reqs |-> <<>>, resps |-> <<>>,
     body |-> NoBody, result |-> [kind |-> "none", error |-> Null]]

InitSink ==
    [pc |-> "none", key |-> <<>>, reqs |-> <<>>, resps |-> <<>>,
     body |-> NoBody, cacheId |-> Undefined, url |-> <<>>, token |-> <<>>,
     data |-> <<>>, written |-> <<>>, writes |-> 0,
     i |-> 0, chunks |-> 0, created |-> [kind |-> "none", error |-> Null],
     finalCb |-> <<>>]

Init ==
    /\ env \in [ACTIONS_CACHE_URL : EnvValues, ACTIONS_RUNTIME_TOKEN : TokenValues]
    /\ cache = [status |-> "uncalled"]
    /\ existsOp = InitExistsOp
    /\ readOp = InitReadOp
    /\ sinks = [s \in Sinks |-> InitSink]

LookupNext ==
    \/ createGithubActionsCache
    \/ \E p \in ArtifactPaths : exists(p)
    \/ \E res \in QueryResponses, t1, t2 \in BOOLEAN :
          existsQueryResponse(res, t1, t2)
    \/ \E t1, t2 \in BOOLEAN : existsQueryJson(t1, t2)
    \/ \E p \in ArtifactPaths : createReadStream(p)
    \/ \E res \in QueryResponses : readQueryResponse(res)
    \/ readQueryJson
    \/ \E res \in BlobResponses : readBlobResponse(res)

LookupSpec == Init /\ [][LookupNext]_vars

UploadNext ==
    \/ createGithubActionsCache
    \/ \E p \in ArtifactPaths : createWriteStream("s1", p)
    \/ \E res \in ReserveResponses : uploadReserveResponse("s1", res)
    \/ \E readOk \in BOOLEAN : uploadReserveText("s1", readOk)
    \/ uploadReserveJson("s1")
    \/ \E chunk \in WriteChunks : write("s1", chunk)
    \/ final("s1")
    \/ \E res \in PlainResponses : patchResponse("s1", res)
    \/ \E readOk \in BOOLEAN : patchText("s1", readOk)
    \/ \E res \in PlainResponses : finalizeResponse("s1", res)
    \/ \E readOk \in BOOLEAN : finalizeText("s1", readOk)

UploadSpec == Init /\ [][UploadNext]_vars

\* ------------------------------------------------- smaller input domains
\* for the specifications that run several operations side by side
SmallStatuses == {200, 500}

SmallChunks ==
    {<<[b |-> 97, n |-> 1], [b |-> 98, n |-> 1], [b |-> 99, n |-> 1]>>,
     <<[b |-> 98, n |-> CHUNK_SIZE + 1]>>}

SmallQueryResponses ==
    {[kind |-> "reject"]}
    \cup {[kind |-> "response", status |-> s, body |-> b] :
             s \in SmallStatuses,
             b \in {[kind |-> "invalid"]}
                     \cup {[kind |-> "object", archiveLocation |-> l] :
                              l \in {Undefined} \cup Locations}}

SmallBlobResponses ==
    {[kind |-> "reject"]}
    \cup {[kind |-> "response", status |-> s, body |-> TRUE] : s \in SmallStatuses}

SmallReserveResponses ==
    {[kind |-> "reject"]}
    \cup {[kind |-> "response", status |-> s, body |-> b] :
             s \in SmallStatuses,
             b \in {[kind |-> "object", cacheId |-> c] : c \in {Undefined} \cup SessionIds}}

SmallPlainResponses ==
    {[kind |-> "reject"]} \cup {[kind |-> "response", status |-> s] : s \in SmallStatuses}

\* ------------------------------------------- the provider as a whole: Spec
\* the factory, one existence check, one read-stream request and one sink
Next ==
    \/ createGithubActionsCache
    \/ \E p \in ArtifactPaths : exists(p)
    \/ \E res \in SmallQueryResponses, t1, t2 \in BOOLEAN :
          existsQueryResponse(res, t1, t2)
    \/ \E t1, t2 \in BOOLEAN : existsQueryJson(t1, t2)
    \/ createReadStream(<<"k">>)
    \/ \E res \in SmallQueryResponses : readQueryResponse(res)
    \/ readQueryJson
    \/ \E res \in SmallBlobResponses : readBlobResponse(res)
    \/ \E p \in ArtifactPaths : createWriteStream("s1", p)
    \/ \E res \in SmallReserveResponses : uploadReserveResponse("s1", res)
    \/ \E readOk \in BOOLEAN : uploadReserveText("s1", readOk)
    \/ uploadReserveJson("s1")
    \/ \E chunk \in SmallChunks : write("s1", chunk)
    \/ final("s1")
    \/ \E res \in SmallPlainResponses : patchResponse("s1", res)
    \/ \E readOk \in BOOLEAN : patchText("s1", readOk)
    \/ \E res \in SmallPlainResponses : finalizeResponse("s1", res)
    \/ \E readOk \in BOOLEAN : finalizeText("s1", readOk)

Spec == Init /\ [][Next]_vars

\* ------------------------------------------------ two sinks: PairSpec
\* two write destinations for the same artifact path, used side by side
PairNext ==
    \/ createGithubActionsCache
    \/ \E s \in Sinks : createWriteStream(s, <<"k">>)
    \/ \E s \in Sinks, res \in SmallReserveResponses : uploadReserveResponse(s, res)
    \/ \E s \in Sinks, readOk \in BOOLEAN : uploadReserveText(s, readOk)
    \/ \E s \in Sinks : uploadReserveJson(s)
    \/ \E s \in Sinks, chunk \in SmallChunks : write(s, chunk)
    \/ \E s \in Sinks : final(s)
    \/ \E s \in Sinks, res \in SmallPlainResponses : patchResponse(s, res)
    \/ \E s \in Sinks, readOk \in BOOLEAN : patchText(s, readOk)
    \/ \E s \in Sinks, res \in SmallPlainResponses : finalizeResponse(s, res)
    \/ \E s \in Sinks, readOk \in BOOLEAN : finalizeText(s, readOk)

PairSpec == Init /\ [][PairNext]_vars

\* ---------------------------------- one sink whose calls all settle: LiveSpec
LiveNext ==
    \/ createGithubActionsCache
    \/ \E p \in ArtifactPaths : createWriteStream("s1", p)
    \/ \E res \in SmallReserveResponses : uploadReserveResponse("s1", res)
    \/ \E readOk \in BOOLEAN : uploadReserveText("s1", readOk)
    \/ uploadReserveJson("s1")
    \/ \E chunk \in SmallChunks : write("s1", chunk)
    \/ final("s1")
    \/ \E res \in SmallPlainResponses : patchResponse("s1", res)
    \/ \E readOk \in BOOLEAN : patchText("s1", readOk)
    \/ \E res \in SmallPlainResponses : finalizeResponse("s1", res)
    \/ \E readOk \in BOOLEAN : finalizeText("s1", readOk)

\* every fetch() and every res.text() of the close sequence settles, and the
\* event loop then runs the continuation that awaits it
LiveSpec ==
    /\ Init
    /\ [][LiveNext]_vars
    /\ WF_vars(\E res \in SmallPlainResponses : patchResponse("s1", res))
    /\ WF_vars(\E readOk \in BOOLEAN : patchText("s1", readOk))
    /\ WF_vars(\E res \in SmallPlainResponses : finalizeResponse("s1", res))
    /\ WF_vars(\E readOk \in BOOLEAN : finalizeText("s1", readOk))

\* ================================================================== claims
\* a settled fetch() that carried a success / a non-success HTTP response
Success(r) == r.kind = "response" /\ r.status \in 200..299

NonSuccess(r) == r.kind = "response" /\ r.status \notin 200..299

\* the requests of sink s after its reservation, and the answers they got
CloseReqs(s) == SubSeq(sinks[s].reqs, 2, Len(sinks[s].reqs))

CloseResps(s) == SubSeq(sinks[s].resps, 2, Len(sinks[s].resps))

\* the close of sink s has run to its end and every call of it succeeded
CloseAllSucceeded(s) ==
    /\ sinks[s].pc \in {"completed", "failed"}
    /\ Len(CloseResps(s)) = Len(CloseReqs(s))
    /\ \A k \in 1..Len(CloseResps(s)) : Success(CloseResps(s)[k])

\* C1: a close in which every remote call succeeds issues exactly
\* ceil(L / 33554432) chunk PATCH calls and then exactly one finalize POST
\* whose size is L; for L = 0 that is no PATCH and one finalize POST of size 0.
C1_ChunkCount ==
    \A s \in Sinks :
      CloseAllSucceeded(s) =>
        LET L == BufLen(sinks[s].data)
            q == CloseReqs(s)
            n == Len(q) - 1
        IN  /\ n >= 0
            /\ \A k \in 1..n : q[k].method = "PATCH"
            /\ q[n + 1].method = "POST"
            /\ q[n + 1].body = [size |-> L]
            /\ n * 33554432 >= L
            /\ n > 0 => (n - 1) * 33554432 < L
            /\ L = 0 => n = 0

C1_Witness ==
    \E s \in Sinks :
      /\ CloseAllSucceeded(s)
      /\ BufLen(sinks[s].data) = 2 * 33554432 + 1
      /\ Len(CloseReqs(s)) = 4

\* C2: for a payload of length L > 0 the ranges [start, end] of the
\* Content-Range headers of the PATCH calls of one successful close partition
\* [0, L): the first starts at 0, each next starts right after the previous
\* end, the last ends at L - 1, every range is non-empty and at most 33554432
\* bytes long, and every total is L; 40 MiB gives 0-33554431, 33554432-41943039.
C2_RangesPartition ==
    \A s \in Sinks :
      (CloseAllSucceeded(s) /\ BufLen(sinks[s].data) > 0) =>
        LET L == BufLen(sinks[s].data)
            q == CloseReqs(s)
            n == Len(q) - 1
            R(k) == q[k].headers.ContentRange
        IN  /\ n >= 1
            /\ R(1).start = 0
            /\ R(n).end = L - 1
            /\ \A k \in 1..n :
                 /\ R(k).unit = "bytes"
                 /\ R(k).start <= R(k).end
                 /\ R(k).end - R(k).start + 1 <= 33554432
                 /\ R(k).total = L
                 /\ BufLen(q[k].body) = R(k).end - R(k).start + 1
            /\ \A k \in 1..(n - 1) : R(k + 1).start = R(k).end + 1
            /\ L = 41943040 =>
                 /\ n = 2
                 /\ <<R(1).start, R(1).end>> = <<0, 33554431>>
                 /\ <<R(2).start, R(2).end>> = <<33554432, 41943039>>

C2_Witness ==
    \E s \in Sinks :
      /\ CloseAllSucceeded(s)
      /\ BufLen(sinks[s].data) = 41943040
      /\ Len(CloseReqs(s)) = 3

\* C3: within one sink the chunk PATCH calls are issued in strictly increasing
\* start-offset order, and when the finalize POST is issued every chunk PATCH
\* of the payload has been issued before it and has got a success response.
C3_Ordering ==
    \A s \in Sinks :
      LET L == BufLen(sinks[s].data)
          q == CloseReqs(s)
          a == CloseResps(s)
      IN  /\ \A j, k \in 1..Len(q) :
                (j < k /\ q[j].method = "PATCH" /\ q[k].method = "PATCH") =>
                   q[j].headers.ContentRange.start < q[k].headers.ContentRange.start
          /\ \A k \in 1..Len(q) :
                q[k].method = "POST" =>
                  /\ \A j \in 1..(k - 1) :
                        /\ q[j].method = "PATCH"
                        /\ j <= Len(a)
                        /\ Success(a[j])
                  /\ IF L = 0 THEN k = 1
                     ELSE /\ k > 1
                          /\ q[1].headers.ContentRange.start = 0
                          /\ q[k - 1].headers.ContentRange.end = L - 1
                          /\ \A j \in 1..(k - 2) :
                                q[j + 1].headers.ContentRange.start
                                  = q[j].headers.ContentRange.end + 1

C3_Witness ==
    \E s \in Sinks :
      /\ sinks[s].pc = "finalize"
      /\ Len(CloseReqs(s)) = 4
      /\ Len(CloseResps(s)) = 3

\* C4: once a chunk PATCH or the finalize POST of a sink has got a non-success
\* response, that request is the last request the sink ever issues.
C4_NoRequestAfterFailure ==
    \A s \in Sinks :
      \A k \in 2..Len(sinks[s].resps) :
        NonSuccess(sinks[s].resps[k]) => Len(sinks[s].reqs) = k

C4_Witness ==
    \E s \in Sinks :
      /\ sinks[s].pc = "failed"
      /\ sinks[s].chunks = 3
      /\ Len(sinks[s].resps) = 3
      /\ NonSuccess(sinks[s].resps[3])

\* C5: the sink reports a successful close exactly when every chunk PATCH and
\* the finalize POST succeeded; a close with a failed step is reported with the
\* error of that step and is never reported as successful.
C5_CloseReport ==
    \A s \in Sinks :
      LET q == CloseReqs(s)
          a == CloseResps(s)
          done == sinks[s].pc \in {"completed", "failed"}
          allOk == /\ Len(q) = sinks[s].chunks + 1
                   /\ Len(a) = Len(q)
                   /\ \A k \in 1..Len(a) : Success(a[k])
          someBad == \E k \in 1..Len(a) : ~Success(a[k])
      IN  /\ (\E k \in 1..Len(sinks[s].finalCb) : sinks[s].finalCb[k] = Null)
                <=> (Len(q) >= 1 /\ allOk)
          /\ (done /\ someBad) =>
                /\ Len(sinks[s].finalCb) = 1
                /\ sinks[s].finalCb[1].name \in {"Error", "FetchError"}
                /\ a[Len(a)].kind = "reject" => sinks[s].finalCb[1] = FetchError
                /\ (NonSuccess(a[Len(a)]) /\ sinks[s].finalCb[1].name = "Error") =>
                      sinks[s].finalCb[1].message[1]
                        = IF q[Len(a)].method = "PATCH"
                            THEN "Failed to patch upload range for upload: "
                            ELSE "Failed to finalize POST for upload: "
          /\ sinks[s].pc = "completed" <=> (Len(q) >= 1 /\ allOk)
          /\ sinks[s].pc = "failed" => someBad

C5_Witness ==
    \E s \in Sinks :
      /\ sinks[s].pc = "failed"
      /\ Len(CloseReqs(s)) = 3
      /\ CloseReqs(s)[3].method = "POST"
      /\ NonSuccess(CloseResps(s)[3])
      /\ sinks[s].finalCb[1].name = "Error"

\* the query of a lookup operation got a success response whose parsed body
\* is an object with no, or with an empty, archiveLocation
NoLocation(op) ==
    /\ Len(op.resps) >= 1
    /\ Success(op.resps[1])
    /\ op.body.kind = "object"
    /\ op.body.archiveLocation \in {Undefined, EmptyString}

\* C6: when the cache query gets a non-success response (any status >= 400),
\* the existence check calls back with a null error and exists = false.
C6_NonSuccessIsMiss ==
    (/\ Len(existsOp.resps) >= 1
     /\ existsOp.resps[1].kind = "response"
     /\ existsOp.resps[1].status >= 400)
      => /\ existsOp.pc = "done"
         /\ existsOp.cb = <<[err |-> Null, exists |-> FALSE]>>

C6_Witness ==
    /\ existsOp.pc = "done"
    /\ existsOp.resps = <<[kind |-> "response", status |-> 500]>>

\* C7: when the cache query gets a success response whose body has no, or an
\* empty, download location, the existence check calls back with a null error
\* and exists = false, and a read-stream request fails with the not-found
\* error without issuing a blob GET.
C7_NoLocationIsMiss ==
    /\ (NoLocation(existsOp) /\ existsOp.pc = "done")
         => existsOp.cb = <<[err |-> Null, exists |-> FALSE]>>
    /\ NoLocation(readOp)
         => /\ Len(readOp.reqs) = 1
            /\ readOp.pc = "done"
                 => readOp.result = [kind |-> "rejected", error |-> NotFoundError]

C7_Witness ==
    /\ NoLocation(existsOp)
    /\ existsOp.pc = "done"
    /\ existsOp.body.archiveLocation = Undefined
    /\ NoLocation(readOp)
    /\ readOp.pc = "done"
    /\ readOp.body.archiveLocation = EmptyString

\* the blob GET of the read-stream request got a non-success response or a
\* response without a body
BlobFailed ==
    /\ Len(readOp.resps) = 2
    /\ readOp.resps[2].kind = "response"
    /\ (readOp.resps[2].status \notin 200..299 \/ ~readOp.resps[2].body)

\* C8: when the query succeeds with a download location but the blob GET gets
\* a non-success response or a response without a body, the read-stream
\* request fails with an error that is not the not-found error.
C8_BlobFailureIsFatal ==
    BlobFailed
      => /\ Success(readOp.resps[1])
         /\ readOp.reqs[2] = [method |-> "GET", url |-> readOp.body.archiveLocation]
         /\ readOp.pc = "done"
         /\ readOp.result.kind = "rejected"
         /\ readOp.result.error # Null
         /\ readOp.result.error.name # "NotFoundError"

C8_Witness ==
    /\ BlobFailed
    /\ readOp.resps[2].status = 200
    /\ readOp.pc = "done"

\* the error with which the query of the existence check failed otherwise
\* than by not-found: a transport failure, or a success response whose body
\* is not JSON or is the JSON value null
QueryFailure ==
    IF existsOp.resps[1].kind = "reject" THEN FetchError
    ELSE IF existsOp.body.kind = "invalid" THEN SyntaxError
    ELSE TypeError

QueryFailed ==
    /\ existsOp.pc = "done"
    /\ \/ existsOp.resps[1].kind = "reject"
       \/ Success(existsOp.resps[1]) /\ existsOp.body.kind \in {"invalid", "null"}

\* C9: when the cache query fails otherwise than by not-found (transport
\* failure, or a success response whose body cannot be parsed), the existence
\* check hands that error to the callback as a non-null error.
C9_OtherErrorsSurfaced ==
    QueryFailed
      => /\ QueryFailure # Null
         /\ existsOp.cb = <<[err |-> QueryFailure, exists |-> FALSE]>>

C9_Witness ==
    /\ QueryFailed
    /\ Success(existsOp.resps[1])
    /\ existsOp.body.kind = "invalid"

\* no operation of the provider has issued a request
NoRequests ==
    /\ existsOp.reqs = <<>>
    /\ readOp.reqs = <<>>
    /\ \A s \in Sinks : sinks[s].reqs = <<>>

Present(v) == v # Undefined /\ v # EmptyString

\* C10: the factory constructs a client only if the base URL and the token
\* are both present and non-empty; otherwise it fails with a configuration
\* error, and no request is issued before or with that failure.
C10_FactoryValidates ==
    LET both == Present(env.ACTIONS_CACHE_URL) /\ Present(env.ACTIONS_RUNTIME_TOKEN)
    IN  /\ cache.status = "ok" => both
        /\ cache.status = "threw" => ~both
        /\ (cache.status # "uncalled" /\ ~both)
             => /\ cache.status = "threw"
                /\ cache.error.name = "Error"
                /\ cache.error.message
                     \in {<<"missing ACTIONS_CACHE_URL">>,
                          <<"missing ACTIONS_RUNTIME_TOKEN">>}
        /\ cache.status # "ok" => NoRequests

C10_Witness ==
    /\ cache.status = "threw"
    /\ Present(env.ACTIONS_CACHE_URL)
    /\ env.ACTIONS_RUNTIME_TOKEN = EmptyString

\* the request is a reservation: a POST to the caches-creation endpoint
IsReservation(r) ==
    /\ r.method = "POST"
    /\ r.url = cache.url \o <<"_apis/artifactcache/caches">>

\* C11: a request for a write destination issues exactly one reservation POST,
\* before any sink is returned; when the reservation gets a non-success
\* response the request fails, no sink is returned and no chunk PATCH and no
\* finalize POST is issued for it.
C11_ReservationFirst ==
    \A s \in Sinks :
      LET q == sinks[s].reqs
          a == sinks[s].resps
      IN  /\ sinks[s].pc # "none" =>
                /\ Len(q) >= 1
                /\ IsReservation(q[1])
                /\ q[1].body = [key |-> sinks[s].key, version |-> <<"1", "0">>]
                /\ \A k \in 2..Len(q) : ~IsReservation(q[k])
          /\ sinks[s].created.kind = "sink" => (Len(a) >= 1 /\ Success(a[1]))
          /\ Len(q) >= 2 => sinks[s].created.kind = "sink"
          /\ (Len(a) >= 1 /\ NonSuccess(a[1])) =>
                /\ Len(q) = 1
                /\ sinks[s].pc \in {"reserveText", "rejected"}
                /\ sinks[s].created.kind # "sink"
                /\ sinks[s].pc = "rejected" =>
                      /\ sinks[s].created.kind = "rejected"
                      /\ sinks[s].created.error # Null

C11_Witness ==
    \E s \in Sinks :
      /\ sinks[s].pc = "rejected"
      /\ NonSuccess(sinks[s].resps[1])
      /\ sinks[s].created.error.name = "Error"

\* the runs of all chunks of a list, one after the other
RECURSIVE Flatten(_)
Flatten(list) == IF list = <<>> THEN <<>> ELSE Head(list) \o Flatten(Tail(list))

\* the run-length encoding of the bytes that a sequence of runs spells
RECURSIVE Canon(_)
Canon(raw) ==
    IF Len(raw) <= 1 THEN raw
    ELSE IF raw[1].b = raw[2].b
      THEN Canon(<<[b |-> raw[1].b, n |-> raw[1].n + raw[2].n]>>
                   \o SubSeq(raw, 3, Len(raw)))
      ELSE <<raw[1]>> \o Canon(Tail(raw))

\* the bytes written to sink s, in the order written
WrittenBytes(s) == Canon(Flatten(sinks[s].written))

HasSink(s) ==
    sinks[s].pc \in {"open", "patch", "patchText", "finalize", "finalizeText",
                     "completed", "failed"}

\* C12: while a sink is open its payload is the concatenation of the chunks
\* written so far, in the order written, and the reservation is the only
\* request it has issued; from end-of-input on the payload is the
\* concatenation of all written chunks.
C12_WritesAppend ==
    \A s \in Sinks :
      /\ HasSink(s) => sinks[s].data = WrittenBytes(s)
      /\ sinks[s].pc = "open" =>
            /\ Len(sinks[s].reqs) = 1
            /\ Len(sinks[s].resps) = 1

C12_Witness ==
    \E s \in Sinks :
      /\ sinks[s].pc = "finalize"
      /\ Len(sinks[s].written) = 2
      /\ sinks[s].written[1] # <<>>
      /\ sinks[s].written[2] # <<>>
      /\ sinks[s].written[1] # sinks[s].written[2]

\* the state of the sink's state machine ("NoSink" before a sink is returned)
Phase(pc) ==
    CASE pc = "open" -> "Open"
      [] pc \in {"patch", "patchText", "finalize", "finalizeText"} -> "Closing"
      [] pc = "completed" -> "Completed"
      [] pc = "failed" -> "Failed"
      [] OTHER -> "NoSink"

PhaseMoves ==
    {<<"NoSink", "NoSink">>, <<"NoSink", "Open">>, <<"Open", "Open">>,
     <<"Open", "Closing">>, <<"Closing", "Closing">>, <<"Closing", "Completed">>,
     <<"Closing", "Failed">>, <<"Completed", "Completed">>, <<"Failed", "Failed">>}

\* from Closing on, what the sink has sent agrees with the payload it holds
SentAgrees(s) ==
    \A k \in 1..Len(CloseReqs(s)) :
      LET r == CloseReqs(s)[k]
      IN  IF r.method = "PATCH"
            THEN /\ r.headers.ContentRange.total = BufLen(sinks[s].data)
                 /\ r.body = BufTake(BufDrop(sinks[s].data, r.headers.ContentRange.start),
                                     r.headers.ContentRange.end
                                       - r.headers.ContentRange.start + 1)
            ELSE r.body = [size |-> BufLen(sinks[s].data)]

\* C13: a sink moves only Open -> Closing -> Completed or Failed and never back
\* to Open; from the moment Closing begins no write is accepted, so the payload
\* stays as it is, and the totals and bytes of every chunk PATCH and the size
\* of the finalize POST are those of that payload.
C13_StateMachine ==
    /\ [](\A s \in Sinks : Phase(sinks[s].pc) # "NoSink" => SentAgrees(s))
    /\ [][\A s \in Sinks :
            /\ <<Phase(sinks[s].pc), Phase(sinks'[s].pc)>> \in PhaseMoves
            /\ Phase(sinks[s].pc) \in {"Closing", "Completed", "Failed"} =>
                  /\ sinks'[s].data = sinks[s].data
                  /\ sinks'[s].written = sinks[s].written]_vars

C13_Witness ==
    \E s \in Sinks :
      /\ sinks[s].pc = "completed"
      /\ sinks[s].chunks = 2
      /\ Len(CloseReqs(s)) = 3

\* C14: when every issued call settles, a sink that got end-of-input reaches
\* Completed or Failed; it reports the close result exactly once, on reaching
\* that state; and while it is Closing, the only steps that touch it are the
\* settlements of its own calls (nothing the caller does stops the sequence).
C14_CloseTerminates ==
    /\ \A s \in Sinks :
         (Phase(sinks[s].pc) = "Closing")
            ~> (Phase(sinks[s].pc) \in {"Completed", "Failed"})
    /\ [](\A s \in Sinks :
            /\ Len(sinks[s].finalCb) <= 1
            /\ Len(sinks[s].finalCb) = 1
                 <=> Phase(sinks[s].pc) \in {"Completed", "Failed"})
    /\ [][\A s \in Sinks :
            (Phase(sinks[s].pc) = "Closing" /\ sinks'[s] # sinks[s]) =>
               \/ Len(sinks'[s].resps) = Len(sinks[s].resps) + 1
               \/ /\ sinks[s].pc \in {"patchText", "finalizeText"}
                  /\ sinks'[s].pc = "failed"]_vars

C14_Witness ==
    \E s \in Sinks :
      /\ sinks[s].pc = "completed"
      /\ sinks[s].finalCb = <<Null>>
      /\ sinks[s].chunks = 2

\* the calls of an operation that have not settled yet
Outstanding(op) == Len(op.reqs) - Len(op.resps)

\* C15: at every moment at most one request of a sink, and of a lookup
\* operation, is outstanding: a request is issued only when every earlier
\* request of the same sink or operation has been answered.
C15_OneInFlight ==
    /\ Outstanding(existsOp) \in {0, 1}
    /\ Outstanding(readOp) \in {0, 1}
    /\ \A s \in Sinks : Outstanding(sinks[s]) \in {0, 1}
    /\ existsOp.pc \in {"query"} <=> Outstanding(existsOp) = 1
    /\ readOp.pc \in {"query", "blob"} <=> Outstanding(readOp) = 1
    /\ \A s \in Sinks :
         sinks[s].pc \in {"reserve", "patch", "finalize"} <=> Outstanding(sinks[s]) = 1

C15_Witness ==
    /\ sinks["s1"].pc = "patch"
    /\ Len(sinks["s1"].reqs) = 3
    /\ readOp.pc = "blob"
    /\ Len(readOp.reqs) = 2

\* the request is a cache query: a GET of the cache-query endpoint
IsQuery(r) ==
    /\ r.method = "GET"
    /\ Len(r.url) > Len(cache.url)
    /\ SubSeq(r.url, 1, Len(cache.url)) = cache.url
    /\ r.url[Len(cache.url) + 1] = "_apis/artifactcache/cache?keys="

\* C16: a read-stream request issues exactly one cache query, and a blob GET
\* only after that query succeeded with a download location, against exactly
\* that location; the existence check issues exactly one cache query and no
\* blob GET.
C16_LookupRequests ==
    /\ existsOp.pc # "idle" =>
          /\ Len(existsOp.reqs) = 1
          /\ IsQuery(existsOp.reqs[1])
    /\ readOp.pc # "idle" =>
          /\ Len(readOp.reqs) \in {1, 2}
          /\ IsQuery(readOp.reqs[1])
          /\ Len(readOp.reqs) = 2 =>
                /\ Success(readOp.resps[1])
                /\ readOp.body.kind = "object"
                /\ readOp.body.archiveLocation \notin {Undefined, EmptyString}
                /\ readOp.reqs[2] = [method |-> "GET",
                                     url    |-> readOp.body.archiveLocation]
                /\ ~IsQuery(readOp.reqs[2])

C16_Witness ==
    /\ readOp.pc = "done"
    /\ Len(readOp.reqs) = 2
    /\ readOp.result.kind = "stream"
    /\ existsOp.pc = "done"
    /\ existsOp.cb = <<[err |-> Null, exists |-> TRUE]>>

\* the session URL built from the identifier sink s got from its own reservation
OwnSessionUrl(s) ==
    cache.url \o <<"_apis/artifactcache/caches/">>
        \o EncodeURIComponent(ToStr(sinks[s].body.cacheId))

\* the k-th close request of sink s is the one its own written bytes call for
OwnRequest(s, k) ==
    LET W     == WrittenBytes(s)
        total == BufLen(W)
        n     == (total + CHUNK_SIZE - 1) \div CHUNK_SIZE
        r     == CloseReqs(s)[k]
        start == (k - 1) * CHUNK_SIZE
    IN  /\ k <= n + 1
        /\ r.url = OwnSessionUrl(s)
        /\ IF k <= n
             THEN /\ r.method = "PATCH"
                  /\ r.body = BufTake(BufDrop(W, start),
                                      Min(CHUNK_SIZE, total - start))
                  /\ r.headers.ContentRange.start = start
                  /\ r.headers.ContentRange.total = total
             ELSE /\ r.method = "POST"
                  /\ r.body = [size |-> total]

\* C17: with two sinks whose writes and closes interleave, also two sinks for
\* one artifact key, the chunk PATCH bodies, Content-Range totals and finalize
\* size of each sink are those of the bytes written to that sink, and all its
\* PATCH and finalize requests are addressed to the session identifier its own
\* reservation returned.
C17_SinksIsolated ==
    \A s \in Sinks :
      HasSink(s) =>
        /\ sinks[s].reqs[1].body = [key |-> sinks[s].key, version |-> VERSION]
        /\ \A k \in 1..Len(CloseReqs(s)) : OwnRequest(s, k)

C17_Witness ==
    /\ sinks["s1"].pc = "completed"
    /\ sinks["s2"].pc = "completed"
    /\ sinks["s1"].key = sinks["s2"].key
    /\ sinks["s1"].body.cacheId # sinks["s2"].body.cacheId
    /\ WrittenBytes("s1") # WrittenBytes("s2")
    /\ Len(CloseReqs("s1")) >= 2
    /\ Len(CloseReqs("s2")) >= 2

\* C18: every call of the existence check invokes the caller's callback
\* exactly once, for every outcome of the query and also when the callback
\* itself raises an error while handling the "found" result.
\* The code chains .catch after .then, so an error the callback raises on
\* cb(null, true) reaches the catch handler, which calls cb(err, false): the
\* callback is invoked a second time.
C18_CallbackOnce ==
    existsOp.pc = "done" => Len(existsOp.cb) = 1

\* the state the code reaches instead: found reported, then an error reported
C18_CalledTwice ==
    /\ existsOp.pc = "done"
    /\ Len(existsOp.cb) = 2
    /\ existsOp.cb[1] = [err |-> Null, exists |-> TRUE]
    /\ existsOp.cb[2].err # Null
    /\ existsOp.cb[2].exists = FALSE

\* the session URL of an identifier that was never issued: String(undefined)
UndefinedSessionUrl ==
    cache.url \o <<"_apis/artifactcache/caches/">>
        \o <<"u", "n", "d", "e", "f", "i", "n", "e", "d">>

\* C19: a sink is returned only when the reservation response supplied a
\* session identifier: after a reservation with a success status and no
\* cacheId in its body there is no sink, and no PATCH or finalize request is
\* addressed to an undefined session.
\* The code passes body.cacheId to new Upload unchecked, so the sink exists
\* and encodeURIComponent(undefined) puts "undefined" into its URLs.
C19_SinkHasSession ==
    \A s \in Sinks :
      /\ sinks[s].created.kind = "sink" => sinks[s].body.cacheId # Undefined
      /\ \A k \in 1..Len(CloseReqs(s)) : CloseReqs(s)[k].url # UndefinedSessionUrl

\* the state the code reaches instead: a whole close sent to .../caches/undefined
C19_UndefinedSession ==
    \E s \in Sinks :
      /\ sinks[s].pc = "completed"
      /\ Success(sinks[s].resps[1])
      /\ sinks[s].body = [kind |-> "object", cacheId |-> Undefined]
      /\ sinks[s].cacheId = Undefined
      /\ Len(CloseReqs(s)) >= 2
      /\ \A k \in 1..Len(CloseReqs(s)) : CloseReqs(s)[k].url = UndefinedSessionUrl

\* key lists a cache query can name: one or two of these keys
QueryKeys == ArtifactPaths \cup {<<"a">>, <<"b">>}

QueryKeyLists ==
    {<<x>> : x \in QueryKeys} \cup {<<x, y>> : x \in QueryKeys, y \in QueryKeys}

\* the query of a lookup for path p names the key list <<p>> and no other,
\* with the fixed protocol version
QueriesSingleKey(op) ==
    op.pc # "idle" =>
      /\ op.reqs[1] = GetMetaRequest(cache, <<op.path>>, VERSION)
      /\ \A keys \in QueryKeyLists :
            op.reqs[1] = GetMetaRequest(cache, keys, VERSION) => keys = <<op.path>>

\* C20: for every artifact path p the write path and both read paths address
\* the same cache key: the reservation for p carries key p and the fixed
\* protocol version, and the existence check and the read-stream request for
\* p query the single key p with that same version.
\* The code writes the key list as keys.join(','), so the query for the one
\* key "a,b" is the query for the two keys "a" and "b", while the reservation
\* carries the key "a,b".
C20_SameCacheKey ==
    /\ sinks["s1"].pc # "none" =>
          sinks["s1"].reqs[1].body = [key |-> sinks["s1"].key, version |-> VERSION]
    /\ QueriesSingleKey(existsOp)
    /\ QueriesSingleKey(readOp)

\* the state the code reaches instead: "a,b" was stored, its close succeeded,
\* and the existence check for "a,b" has asked for the keys "a" and "b"
C20_QueryNamesTwoKeys ==
    /\ sinks["s1"].pc = "completed"
    /\ sinks["s1"].key = <<"a", ",", "b">>
    /\ sinks["s1"].reqs[1].body.key = <<"a", ",", "b">>
    /\ existsOp.pc # "idle"
    /\ existsOp.path = <<"a", ",", "b">>
    /\ existsOp.reqs[1] = GetMetaRequest(cache, <<(<<"a">>), (<<"b">>)>>, VERSION)

====
